---- MODULE Spec2Model ----
(***************************************************************************)
(* Model of the Laundry countdown-timer firmware: the debounced            *)
(* illuminated push-button (SwitchControl) and the finite state machine    *)
(* (Machine, State and its five derived states) that drives a 10-segment   *)
(* LED bar.                                                                *)
(*                                                                         *)
(* All objects are modelled with static storage duration (an Arduino       *)
(* sketch declares them at file scope), so members that no constructor     *)
(* initialises (Machine::states, State::state_start_time, the WaitState    *)
(* counters, the shared total_time) start zeroed.                          *)
(***************************************************************************)
EXTENDS Integers, Sequences, FiniteSets, TLC

(* ------------------------------------------------------------------ *)
(* Types and program constants                                         *)
(* ------------------------------------------------------------------ *)

\* The range of unsigned long. The target's is 32 bits wide; TLC's integers end
\* at 2^31 - 1, so the counter is modelled 30 bits wide: every timestamp,
\* elapsed time and product the model reaches stays below it, and the
\* arithmetic wraps at the end of the range in the same way.
ULONG == 1073741824

\* uint8_t digital levels
LOW == 0
HIGH == 1

\* enum SwitchControl::Event
EVENT_NONE == 0
EVENT_PRESSED == 1
EVENT_LONGPRESS == 2
EVENT_RELEASED == 3
Events == {EVENT_NONE, EVENT_PRESSED, EVENT_LONGPRESS, EVENT_RELEASED}

\* enum State::StateID
STATE_NONE == 0
STATE_OFF == 1
STATE_STARTUP == 2
STATE_PROGRAM == 3
STATE_TIMER == 4
STATE_WAIT == 5
STATE_MAX == 6
Modes == {STATE_OFF, STATE_STARTUP, STATE_PROGRAM, STATE_TIMER, STATE_WAIT}

\* SwitchControl constructor defaults
debounce_time == 50
longpress_time == 3000

\* StartupState::update: length of the self-test fill
startup_time == 1500

\* ProgramState
hold_time == 2000
timeout == 4500
bar_time == 1800
bar_count == 10

\* TimerState / WaitState render intervals
timer_interval == 500
sweep_interval == 100
sweep_last == 9
sweep_divisor == 3
LEVEL_FULL == 255

(* ------------------------------------------------------------------ *)
(* Unsigned arithmetic                                                 *)
(* ------------------------------------------------------------------ *)

\* mutant: a difference that would be negative is taken as 0
Sub_saturating(a, b) == IF a >= b THEN a - b ELSE 0

\* a - b on unsigned long: the difference modulo the range
Sub(a, b) == IF a >= b THEN a - b ELSE a + (ULONG - b)

\* a + b on unsigned long
Add(a, b) == (a + b) % ULONG

\* a * b on unsigned long
Mul(a, b) == (a * b) % ULONG

(* ------------------------------------------------------------------ *)
(* Program state                                                       *)
(* ------------------------------------------------------------------ *)

VARIABLES
    millis,     \* the Arduino millisecond counter, as read by millis()
    button,     \* the SwitchControl object (and its indicator LED pin)
    machine,    \* the Machine object: current_state and the states[] slots
    objs,       \* the members of the five State objects and the shared total_time
    led_bar,    \* the arguments last handed to Grove_LED_Bar::setLevel / setLeds
    event,      \* the Event last returned by SwitchControl::update()
    pc,         \* "boot" until the sketch's setup() has run, then "run"
    obs         \* observer: what the last operation was and did

vars == <<millis, button, machine, objs, led_bar, event, pc, obs>>

\* The running program as one record, the form the operations below work on.
\* entered lists the enter() hooks run by the operation in progress and ret is
\* the StateID returned by the state's update().
World ==
    [t |-> millis, b |-> button, m |-> machine, s |-> objs, bar |-> led_bar,
     ev |-> event, ret |-> STATE_NONE, entered |-> <<>>]

(* ------------------------------------------------------------------ *)
(* SwitchControl                                                       *)
(* ------------------------------------------------------------------ *)

\* mutant: the committed level starts out pressed
SwitchControl_new_pressed ==
    [switch_state |-> HIGH, in_longpress |-> FALSE, last_press |-> 0,
     last_release |-> 0, last_state |-> LOW, last_debounce |-> 0,
     led |-> FALSE]

\* SwitchControl::SwitchControl: the member initialisers; setup() has not
\* run yet, the indicator LED pin is at its reset level
SwitchControl_new ==
    [switch_state |-> LOW, in_longpress |-> FALSE, last_press |-> 0,
     last_release |-> 0, last_state |-> LOW, last_debounce |-> 0,
     led |-> FALSE]

\* SwitchControl::set_led_state
SwitchControl_set_led_state(w, on) == [w EXCEPT !.b.led = on]

\* SwitchControl::setup: the indicator LED is put in a known (off) state
SwitchControl_setup(w) == SwitchControl_set_led_state(w, FALSE)

\* SwitchControl::is_pressed
is_pressed(w) == w.b.switch_state = HIGH

\* SwitchControl::time_since_pressed
time_since_pressed(w) == Sub(w.t, w.b.last_press)

\* SwitchControl::time_since_released
time_since_released(w) == Sub(w.t, w.b.last_release)

\* if(current_state != last_state) last_debounce = millis();
ResetDebounce(w, current_state) ==
    IF current_state # w.b.last_state
    THEN [w EXCEPT !.b.last_debounce = w.t]
    ELSE w

\* mutant: the debounce comparison made inclusive
DebounceExpired_inclusive(w) == Sub(w.t, w.b.last_debounce) >= debounce_time

\* (millis() - last_debounce) > debounce_time
DebounceExpired(w) == Sub(w.t, w.b.last_debounce) > debounce_time

\* mutant: a committed release leaves the longpress latch set
CommitLevel_keeplatch(w, current_state) ==
    IF current_state # w.b.switch_state
    THEN IF current_state = HIGH
         THEN [w EXCEPT !.b.switch_state = current_state,
                        !.b.last_press = w.t,
                        !.ev = EVENT_PRESSED]
         ELSE [w EXCEPT !.b.switch_state = current_state,
                        !.b.last_release = w.t,
                        !.ev = EVENT_RELEASED]
    ELSE w

\* mutant: a committed press does not record its time
CommitLevel_nostamp(w, current_state) ==
    IF current_state # w.b.switch_state
    THEN IF current_state = HIGH
         THEN [w EXCEPT !.b.switch_state = current_state,
                        !.ev = EVENT_PRESSED]
         ELSE [w EXCEPT !.b.switch_state = current_state,
                        !.b.in_longpress = FALSE,
                        !.b.last_release = w.t,
                        !.ev = EVENT_RELEASED]
    ELSE w

\* if(current_state != switch_state) { ... }: commit the level and turn it
\* into an event
CommitLevel(w, current_state) ==
    IF current_state # w.b.switch_state
    THEN IF current_state = HIGH
         THEN [w EXCEPT !.b.switch_state = current_state,
                        !.b.last_press = w.t,
                        !.ev = EVENT_PRESSED]
         ELSE [w EXCEPT !.b.switch_state = current_state,
                        !.b.in_longpress = FALSE,
                        !.b.last_release = w.t,
                        !.ev = EVENT_RELEASED]
    ELSE w

\* !in_longpress && switch_state == HIGH && ((millis() - last_press) > longpress_time)
LongpressDue(w) ==
    /\ ~w.b.in_longpress
    /\ w.b.switch_state = HIGH
    /\ Sub(w.t, w.b.last_press) > longpress_time

\* mutant: the longpress latch is never set
CheckLongpress_nolatch(w) ==
    IF LongpressDue(w) THEN [w EXCEPT !.ev = EVENT_LONGPRESS] ELSE w

\* the longpress check of update()
CheckLongpress(w) ==
    IF LongpressDue(w)
    THEN [w EXCEPT !.b.in_longpress = TRUE, !.ev = EVENT_LONGPRESS]
    ELSE w

\* SwitchControl::update, with current_state the level digitalRead returns
SwitchControl_update(w, current_state) ==
    LET w0 == [w EXCEPT !.ev = EVENT_NONE]
        w1 == ResetDebounce(w0, current_state)
        w2 == IF DebounceExpired(w1)
              THEN CheckLongpress(CommitLevel(w1, current_state))
              ELSE w1
    IN  [w2 EXCEPT !.b.last_state = current_state]

(* ------------------------------------------------------------------ *)
(* Grove_LED_Bar (external): only the arguments of the calls are kept  *)
(* ------------------------------------------------------------------ *)

Segments == 0..sweep_last

\* nothing has been handed to the bar yet
LedBar_new == [level |-> 0, leds |-> [i \in Segments |-> 0]]

\* led_bar.setLevel(n)
setLevel(w, n) == [w EXCEPT !.bar.level = n]

\* led_bar.setLeds(leds)
setLeds(w, leds) == [w EXCEPT !.bar.leds = leds]

(* ------------------------------------------------------------------ *)
(* State (base class)                                                  *)
(* ------------------------------------------------------------------ *)

\* the members of the state objects after their constructors, and the
\* unsigned long that ProgramState and TimerState share through total_time
States_new ==
    [state_start_time |-> [id \in Modes |-> 0],
     program_time |-> 0,
     total_time |-> 0,
     timer_last_update |-> 0,
     wait_last_update |-> 0,
     sweep_led |-> 0,
     sweep_dir |-> 0]

\* State::enter of the object with the given id
State_enter(w, id) ==
    [w EXCEPT !.s.state_start_time[id] = w.t,
              !.entered = Append(w.entered, id)]

\* State::state_time of the object with the given id
state_time(w, id) == Sub(w.t, w.s.state_start_time[id])

\* mutant: the base class ignores long presses
State_update_ignore(ev) == STATE_NONE

\* State::update : the StateID the base class asks for
State_update(ev) == IF ev = EVENT_LONGPRESS THEN STATE_OFF ELSE STATE_NONE

(* ------------------------------------------------------------------ *)
(* STATE_OFF                                                           *)
(* ------------------------------------------------------------------ *)

OffState_enter(w) ==
    SwitchControl_set_led_state(setLevel(State_enter(w, STATE_OFF), 0), FALSE)

\* mutant: a press in STATE_OFF skips the self-test
OffState_update_skip(w, ev) ==
    IF State_update(ev) # STATE_NONE
    THEN [w EXCEPT !.ret = State_update(ev)]
    ELSE IF ev = EVENT_PRESSED
         THEN [w EXCEPT !.ret = STATE_PROGRAM]
         ELSE [w EXCEPT !.ret = STATE_NONE]

OffState_update(w, ev) ==
    IF State_update(ev) # STATE_NONE
    THEN [w EXCEPT !.ret = State_update(ev)]
    ELSE IF ev = EVENT_PRESSED
         THEN [w EXCEPT !.ret = STATE_STARTUP]
         ELSE [w EXCEPT !.ret = STATE_NONE]

(* ------------------------------------------------------------------ *)
(* STATE_STARTUP                                                       *)
(* ------------------------------------------------------------------ *)

\* mutant: the self-test leaves the indicator LED alone
StartupState_enter_dark(w) == State_enter(w, STATE_STARTUP)

StartupState_enter(w) ==
    SwitchControl_set_led_state(State_enter(w, STATE_STARTUP), TRUE)

\* mutant: the self-test runs one millisecond longer
StartupDone_strict(w) == state_time(w, STATE_STARTUP) > startup_time

\* state_time() >= 1500
StartupDone(w) == state_time(w, STATE_STARTUP) >= startup_time

\* mutant: the fill without the ten milliseconds of fudge
StartupLevel_nofudge(w) == state_time(w, STATE_STARTUP) \div 100

\* (state_time() + 10) / 100, the value handed to setLevel
StartupLevel(w) == Add(state_time(w, STATE_STARTUP), 10) \div 100

StartupState_update(w, ev) ==
    IF State_update(ev) # STATE_NONE
    THEN [w EXCEPT !.ret = State_update(ev)]
    ELSE IF StartupDone(w)
         THEN [w EXCEPT !.ret = STATE_PROGRAM]
         ELSE [setLevel(w, StartupLevel(w)) EXCEPT !.ret = STATE_NONE]

(* ------------------------------------------------------------------ *)
(* STATE_PROGRAM                                                       *)
(* ------------------------------------------------------------------ *)

ProgramState_enter(w) ==
    [setLevel(State_enter(w, STATE_PROGRAM), 1) EXCEPT !.s.program_time = 1]

\* mutant: the count wraps one press late
NextProgramTime_late(n) == IF Add(n, 1) > bar_count + 1 THEN 1 ELSE Add(n, 1)

\* ++program_time; if (program_time > 10) program_time = 1;
NextProgramTime(n) == IF Add(n, 1) > bar_count THEN 1 ELSE Add(n, 1)

\* the EVENT_PRESSED branch of ProgramState::update
ProgramPressed(w) ==
    LET n == NextProgramTime(w.s.program_time)
    IN  setLevel([w EXCEPT !.s.program_time = n], n)

\* button.time_since_pressed() > hold_time && released > hold_time
ProgramIdle(w) ==
    /\ time_since_pressed(w) > hold_time
    /\ time_since_released(w) > hold_time

\* released > timeout
ProgramTimedOut(w) == time_since_released(w) > timeout

\* mutant: the budget is left in seconds
ProgramBudget_seconds(w) == Mul(w.s.program_time, bar_time)

\* program_time * (bar_time * 1000)
ProgramBudget(w) == Mul(w.s.program_time, Mul(bar_time, 1000))

\* the flashing of the selected bars while the button is idle
ProgramFlash(w) ==
    IF ((Sub(time_since_released(w), hold_time) \div 250) % 2) # 0
    THEN setLevel(w, 0)
    ELSE setLevel(w, w.s.program_time)

\* mutant: the budget is written as soon as the button is idle
ProgramState_update_eager(w, ev) ==
    IF State_update(ev) # STATE_NONE
    THEN [w EXCEPT !.ret = State_update(ev)]
    ELSE LET w1 == IF ev = EVENT_PRESSED THEN ProgramPressed(w) ELSE w
         IN  IF ProgramIdle(w1)
             THEN LET w2 == [ProgramFlash(w1) EXCEPT
                                !.s.total_time = ProgramBudget(w1)]
                  IN  IF ProgramTimedOut(w2)
                      THEN [w2 EXCEPT !.ret = STATE_TIMER]
                      ELSE [w2 EXCEPT !.ret = STATE_NONE]
             ELSE [w1 EXCEPT !.ret = STATE_NONE]

ProgramState_update(w, ev) ==
    IF State_update(ev) # STATE_NONE
    THEN [w EXCEPT !.ret = State_update(ev)]
    ELSE LET w1 == IF ev = EVENT_PRESSED THEN ProgramPressed(w) ELSE w
         IN  IF ProgramIdle(w1)
             THEN LET w2 == ProgramFlash(w1)
                  IN  IF ProgramTimedOut(w2)
                      THEN [w2 EXCEPT !.s.total_time = ProgramBudget(w2),
                                      !.ret = STATE_TIMER]
                      ELSE [w2 EXCEPT !.ret = STATE_NONE]
             ELSE [w1 EXCEPT !.ret = STATE_NONE]

(* ------------------------------------------------------------------ *)
(* STATE_TIMER                                                         *)
(* ------------------------------------------------------------------ *)

TimerState_enter(w) ==
    setLevel([State_enter(w, STATE_TIMER) EXCEPT !.s.timer_last_update = 0], 0)

\* (float)state_time() / ((float)(*total_time) / 10.0f), as the whole number of
\* segments; a zero total_time divides by 0.0f and the quotient saturates
TimerLevel(w) ==
    IF w.s.total_time = 0
    THEN ULONG
    ELSE (state_time(w, STATE_TIMER) * 10) \div w.s.total_time

\* mutant: the countdown ends one millisecond early
TimerExpired_inclusive(w) == state_time(w, STATE_TIMER) >= w.s.total_time

\* state_time() > *total_time
TimerExpired(w) == state_time(w, STATE_TIMER) > w.s.total_time

\* the half-second refresh of the bar
TimerRender(w) ==
    IF Sub(w.t, w.s.timer_last_update) > timer_interval
    THEN setLevel([w EXCEPT !.s.timer_last_update = w.t], TimerLevel(w))
    ELSE w

\* mutant: the countdown never hands over to the sweep
TimerState_update_stay(w, ev) ==
    IF State_update(ev) # STATE_NONE
    THEN [w EXCEPT !.ret = State_update(ev)]
    ELSE [TimerRender(w) EXCEPT !.ret = STATE_NONE]

TimerState_update(w, ev) ==
    IF State_update(ev) # STATE_NONE
    THEN [w EXCEPT !.ret = State_update(ev)]
    ELSE LET w1 == TimerRender(w)
         IN  IF TimerExpired(w1)
             THEN [w1 EXCEPT !.ret = STATE_WAIT]
             ELSE [w1 EXCEPT !.ret = STATE_NONE]

(* ------------------------------------------------------------------ *)
(* STATE_WAIT                                                          *)
(* ------------------------------------------------------------------ *)

\* mutant: the trail is written over segments that are already set
SweepIter_overwrite(k) ==
    LET leds1 == [k.leds EXCEPT ![k.led] = k.level]
        led1 == k.led + k.dir
        low == led1 <= 0
        led2 == IF low THEN 0 ELSE led1
        dir2 == IF low THEN 1 ELSE k.dir
        high == led2 >= sweep_last
        led3 == IF high THEN sweep_last ELSE led2
        dir3 == IF high THEN -1 ELSE dir2
    IN  [leds |-> leds1, led |-> led3, dir |-> dir3,
         level |-> k.level \div sweep_divisor]

\* one pass through the body of the while loop of WaitState::sweep_leds, on
\* the locals leds, led, dir and level
SweepIter(k) ==
    LET leds1 == IF k.leds[k.led] = 0
                 THEN [k.leds EXCEPT ![k.led] = k.level] ELSE k.leds
        led1 == k.led + k.dir
        low == led1 <= 0
        led2 == IF low THEN 0 ELSE led1
        dir2 == IF low THEN 1 ELSE k.dir
        high == led2 >= sweep_last
        led3 == IF high THEN sweep_last ELSE led2
        dir3 == IF high THEN -1 ELSE dir2
    IN  [leds |-> leds1, led |-> led3, dir |-> dir3,
         level |-> k.level \div sweep_divisor]

\* the locals of WaitState::sweep_leds when the while loop is reached
SweepLocals(led, dir) ==
    [leds |-> [i \in Segments |-> 0], led |-> led, dir |-> dir * (-1),
     level |-> LEVEL_FULL]

\* the while loop of WaitState::sweep_leds; dir is already reversed
RECURSIVE SweepWalk(_, _, _, _)
SweepWalk(leds, led, dir, level) ==
    IF level > 0
    THEN LET k == SweepIter([leds |-> leds, led |-> led, dir |-> dir,
                             level |-> level])
         IN  SweepWalk(k.leds, k.led, k.dir, k.level)
    ELSE leds

\* WaitState::sweep_leds: the frame handed to setLeds
sweep_leds(led, dir) ==
    SweepWalk([i \in Segments |-> 0], led, dir * (-1), LEVEL_FULL)

WaitState_enter(w) ==
    setLevel([State_enter(w, STATE_WAIT) EXCEPT !.s.wait_last_update = w.t,
                                                 !.s.sweep_led = 0,
                                                 !.s.sweep_dir = 1], 0)

\* mutant: the head only bounces off the far end
SweepAdvance_onebounce(w) ==
    LET led == w.s.sweep_led + w.s.sweep_dir
        dir1 == IF led = sweep_last THEN -1 ELSE w.s.sweep_dir
    IN  [w EXCEPT !.s.sweep_led = led, !.s.sweep_dir = dir1]

\* sweep_led += sweep_dir, bouncing off the ends
SweepAdvance(w) ==
    LET led == w.s.sweep_led + w.s.sweep_dir
        dir1 == IF led = sweep_last THEN -1 ELSE w.s.sweep_dir
        dir2 == IF led = 0 THEN 1 ELSE dir1
    IN  [w EXCEPT !.s.sweep_led = led, !.s.sweep_dir = dir2]

\* the tenth-of-a-second refresh of the sweep
WaitRender(w) ==
    IF Sub(w.t, w.s.wait_last_update) > sweep_interval
    THEN LET w1 == SweepAdvance([w EXCEPT !.s.wait_last_update = w.t])
         IN  setLeds(w1, sweep_leds(w1.s.sweep_led, w1.s.sweep_dir))
    ELSE w

\* mutant: the button is only looked at when the sweep is due
WaitState_update_gated(w, ev) ==
    IF State_update(ev) # STATE_NONE
    THEN [w EXCEPT !.ret = State_update(ev)]
    ELSE IF Sub(w.t, w.s.wait_last_update) > sweep_interval
         THEN IF ev = EVENT_PRESSED
              THEN [w EXCEPT !.ret = STATE_STARTUP]
              ELSE [WaitRender(w) EXCEPT !.ret = STATE_NONE]
         ELSE [w EXCEPT !.ret = STATE_NONE]

WaitState_update(w, ev) ==
    IF State_update(ev) # STATE_NONE
    THEN [w EXCEPT !.ret = State_update(ev)]
    ELSE IF ev = EVENT_PRESSED
         THEN [w EXCEPT !.ret = STATE_STARTUP]
         ELSE [WaitRender(w) EXCEPT !.ret = STATE_NONE]

(* ------------------------------------------------------------------ *)
(* Machine                                                             *)
(* ------------------------------------------------------------------ *)

\* Machine::Machine: current_state(STATE_NONE); the states[] slots are zeroed
Machine_new ==
    [current_state |-> STATE_NONE, states |-> [id \in 0..(STATE_MAX - 1) |-> FALSE]]

\* states[id] -> enter(), by the dynamic type of the object in the slot
enter(w, id) ==
    CASE id = STATE_OFF -> OffState_enter(w)
      [] id = STATE_STARTUP -> StartupState_enter(w)
      [] id = STATE_PROGRAM -> ProgramState_enter(w)
      [] id = STATE_TIMER -> TimerState_enter(w)
      [] id = STATE_WAIT -> WaitState_enter(w)

\* states[id] -> update(event), by the dynamic type of the object in the slot
update(w, id, ev) ==
    CASE id = STATE_OFF -> OffState_update(w, ev)
      [] id = STATE_STARTUP -> StartupState_update(w, ev)
      [] id = STATE_PROGRAM -> ProgramState_update(w, ev)
      [] id = STATE_TIMER -> TimerState_update(w, ev)
      [] id = STATE_WAIT -> WaitState_update(w, ev)

\* Machine::add_state of the state object whose get_id() is id
Machine_add_state(w, id) == [w EXCEPT !.m.states[id] = TRUE]

\* mutant: the current state may be entered again
SetStateAllowed_reenter(w, newstate) ==
    /\ newstate # STATE_NONE
    /\ newstate < STATE_MAX
    /\ w.m.states[newstate]

\* mutant: a state without an implementation may be entered
SetStateAllowed_unregistered(w, newstate) ==
    /\ newstate # w.m.current_state
    /\ newstate # STATE_NONE
    /\ newstate < STATE_MAX

\* the condition of Machine::set_state
SetStateAllowed(w, newstate) ==
    /\ newstate # w.m.current_state
    /\ newstate # STATE_NONE
    /\ newstate < STATE_MAX
    /\ w.m.states[newstate]

\* Machine::set_state
Machine_set_state(w, newstate) ==
    IF SetStateAllowed(w, newstate)
    THEN enter([w EXCEPT !.m.current_state = newstate], newstate)
    ELSE w

\* the condition of Machine::update
UpdateAllowed(w) ==
    /\ w.m.current_state # STATE_NONE
    /\ w.m.states[w.m.current_state]

\* mutant: a machine without a current state falls back to STATE_OFF
Machine_update_fallback(w, ev) ==
    IF UpdateAllowed(w)
    THEN LET u == update(w, w.m.current_state, ev)
         IN  Machine_set_state(u, u.ret)
    ELSE Machine_set_state(w, STATE_OFF)

\* Machine::update
Machine_update(w, ev) ==
    IF UpdateAllowed(w)
    THEN LET u == update(w, w.m.current_state, ev)
         IN  Machine_set_state(u, u.ret)
    ELSE w

(* ------------------------------------------------------------------ *)
(* Bounds and inputs                                                   *)
(* ------------------------------------------------------------------ *)

\* the clock is followed up to this many milliseconds after reset
MaxTime == 1807000

\* how often the raw level of the switch pin may change
MaxToggles == 4

Levels == {LOW, HIGH}

\* how many times a caller of the Machine interface registers a state, asks
\* for a state or lets time pass
MaxCalls == 4

\* the StateID arguments tried on set_state: every enumerator and one value
\* past STATE_MAX
StateArgs == 0..(STATE_MAX + 1)

\* taps of the button: how many presses are followed, and for how long
MaxPresses == 11
MaxPressTime == 3000

\* the counter wrapping: how often the pin level may change in a run that is
\* followed across the wrap, and how long before the wrap it is picked up
MaxWrapToggles == 2
WrapLeads == {30, 1000, 900000, 1805000}

\* the time a caller lets pass between two calls
CallDelays == {startup_time, timeout + 1}

\* the same for a caller who drives the machine through a whole countdown,
\* and how often that caller lets time pass
DriveDelays == CallDelays \cup {bar_time * 1000 + 1}
MaxDrives == 3

\* The instants at which one of the program's elapsed-time comparisons sits
\* exactly on its threshold: a poll at such an instant sees the comparison
\* fail, a poll one millisecond later sees it succeed. While the button is
\* held, the instant twice the longpress time after the press is looked at
\* too, and so is the last instant before the counter wraps.
Deadlines(w) ==
    {ULONG - 1}
    \cup (IF w.b.last_state # w.b.switch_state
     THEN {Add(w.b.last_debounce, debounce_time)}
     ELSE {})
    \cup (IF w.b.switch_state = HIGH
          THEN {Add(w.b.last_press, longpress_time),
                Add(w.b.last_press, 2 * longpress_time)}
          ELSE {})
    \cup (IF w.m.current_state = STATE_STARTUP
          THEN {Add(w.s.state_start_time[STATE_STARTUP], startup_time - 1)}
          ELSE {})
    \cup (IF w.m.current_state = STATE_PROGRAM
          THEN {Add(w.b.last_press, hold_time),
                Add(w.b.last_release, hold_time),
                Add(w.b.last_release, timeout)}
          ELSE {})
    \cup (IF w.m.current_state = STATE_TIMER
          THEN {Add(w.s.state_start_time[STATE_TIMER], w.s.total_time)}
          ELSE {})
    \cup (IF w.m.current_state = STATE_WAIT
          THEN {Add(w.s.wait_last_update, sweep_interval)}
          ELSE {})

\* The delays after which the next poll is looked at: up to a deadline, or just
\* past it, and the poll right after one that returned an event. The polls in
\* between are the ones that change nothing (Quiet).
Delays(w) ==
    {d \in {Sub(D, w.t) : D \in Deadlines(w)}
             \cup {Add(Sub(D, w.t), 1) : D \in Deadlines(w)}
             \cup (IF w.ev # EVENT_NONE THEN {1} ELSE {}) :
        d > 0 /\ Sub(w.t, obs.epoch) + d <= MaxTime}

\* the delays after which the pin level may be found changed
ToggleDelays(w) == {1} \cup Delays(w)

\* a run followed for as long as it takes: how often the pin level may
\* change, and for how long the sweep of STATE_WAIT is watched
MaxLiveToggles == 2
MaxLiveWait == 2500

\* The same delays with no end to the time followed, except in STATE_WAIT;
\* the longest wait for a deadline is a countdown of ten bars.
LiveDelays(w) ==
    {d \in {Sub(D, w.t) : D \in Deadlines(w)}
             \cup {Add(Sub(D, w.t), 1) : D \in Deadlines(w)}
             \cup (IF w.ev # EVENT_NONE THEN {1} ELSE {}) :
        /\ d > 0
        /\ d <= bar_count * bar_time * 1000 + 1
        /\ w.m.current_state = STATE_WAIT
           => state_time(w, STATE_WAIT) + d <= MaxLiveWait}

(* ------------------------------------------------------------------ *)
(* The sketch: setup() and loop()                                      *)
(* ------------------------------------------------------------------ *)

\* one pass of loop() at the current instant: the event of button.update()
\* is handed to fsm.update()
LoopBody(w, raw) ==
    LET w1 == SwitchControl_update(w, raw)
    IN  Machine_update(w1, w1.ev)

\* a pass of loop() at instant t with the pin level unchanged would change
\* neither the button nor the current state
Quiet(w, t) ==
    LET v == LoopBody([w EXCEPT !.t = t], w.b.last_state)
    IN  /\ v.b = w.b
        /\ v.ev = EVENT_NONE
        /\ v.m = w.m

\* setup(): the button is set up, the five states are registered and the
\* machine is started in STATE_OFF
SetupBody(w) ==
    LET w1 == SwitchControl_setup(w)
        w2 == Machine_add_state(w1, STATE_OFF)
        w3 == Machine_add_state(w2, STATE_STARTUP)
        w4 == Machine_add_state(w3, STATE_PROGRAM)
        w5 == Machine_add_state(w4, STATE_TIMER)
        w6 == Machine_add_state(w5, STATE_WAIT)
    IN  Machine_set_state(w6, STATE_OFF)

(* ------------------------------------------------------------------ *)
(* Observer                                                            *)
(* ------------------------------------------------------------------ *)

\* op, arg   the operation that made the last step and its argument
\* prev      current_state before that operation
\* entered   the enter() hooks that operation ran, in order
\* raw       the pin level read by the last poll
\* raw_since the instant of the first poll of the current run of equal levels
\* hold      the length of the last finished run of HIGH readings
\* longpresses  EVENT_LONGPRESS returned since the last EVENT_PRESSED
\* toggles   how often the pin level has changed between polls
\* edge      the last EVENT_PRESSED or EVENT_RELEASED returned, if any
\* left      the user has let go of the button for good
\* calls     how many calls the caller of the Machine interface has made
\* epoch     the counter value from which the run is followed (0: from reset)
\* now       the time since reset, in milliseconds, not wrapped
\* raw_stamp that time at the first poll of the current run of equal levels
\* stamp     for each timestamp the program keeps, the time since reset (not
\*           wrapped) at which it was taken; -1 while timer_last_update holds
\*           the 0 of TimerState::enter instead of a reading of millis()
Obs_new ==
    [op |-> "init", arg |-> 0, prev |-> STATE_NONE, entered |-> <<>>,
     raw |-> LOW, raw_since |-> 0, hold |-> 0, longpresses |-> 0, toggles |-> 0,
     calls |-> 0, epoch |-> 0, now |-> 0, raw_stamp |-> 0,
     edge |-> EVENT_NONE, left |-> FALSE,
     stamp |-> [debounce |-> 0, press |-> 0, release |-> 0,
                start |-> [id \in Modes |-> 0], timer |-> -1, wait |-> 0]]

\* an operation that took the program from w to v, d milliseconds after the
\* one before: the time moves on and the timestamps it wrote are stamped
ObserveTime(o, w, v, d) ==
    LET n == o.now + d
        S(old, new, at) == IF new # old THEN n ELSE at
    IN  [o EXCEPT
           !.now = n,
           !.raw_stamp = IF v.b.last_state # w.b.last_state
                         THEN n ELSE o.raw_stamp,
           !.stamp =
              [debounce |-> S(w.b.last_debounce, v.b.last_debounce,
                              o.stamp.debounce),
               press |-> S(w.b.last_press, v.b.last_press, o.stamp.press),
               release |-> S(w.b.last_release, v.b.last_release,
                             o.stamp.release),
               start |-> [id \in Modes |->
                            S(w.s.state_start_time[id],
                              v.s.state_start_time[id], o.stamp.start[id])],
               timer |-> IF v.s.timer_last_update # w.s.timer_last_update
                         THEN (IF v.s.timer_last_update = v.t THEN n ELSE -1)
                         ELSE o.stamp.timer,
               wait |-> S(w.s.wait_last_update, v.s.wait_last_update,
                          o.stamp.wait)]]

ObservePoll(o, w, v, raw) ==
    [o EXCEPT !.op = "loop",
              !.arg = raw,
              !.prev = w.m.current_state,
              !.entered = v.entered,
              !.raw = raw,
              !.raw_since = IF raw # o.raw THEN v.t ELSE o.raw_since,
              !.hold = IF raw # o.raw /\ o.raw = HIGH
                       THEN Sub(v.t, o.raw_since) ELSE o.hold,
              !.longpresses = CASE v.ev = EVENT_PRESSED -> 0
                                [] v.ev = EVENT_LONGPRESS -> o.longpresses + 1
                                [] OTHER -> o.longpresses,
              !.toggles = IF raw # o.raw THEN o.toggles + 1 ELSE o.toggles,
              !.edge = IF v.ev \in {EVENT_PRESSED, EVENT_RELEASED}
                       THEN v.ev ELSE o.edge]

(* ------------------------------------------------------------------ *)
(* Actions                                                             *)
(* ------------------------------------------------------------------ *)

Commit(v) ==
    /\ millis' = v.t
    /\ button' = v.b
    /\ machine' = v.m
    /\ objs' = v.s
    /\ led_bar' = v.bar
    /\ event' = v.ev

Init ==
    /\ millis = 0
    /\ button = SwitchControl_new
    /\ machine = Machine_new
    /\ objs = States_new
    /\ led_bar = LedBar_new
    /\ event = EVENT_NONE
    /\ pc = "boot"
    /\ obs = Obs_new

Setup ==
    /\ pc = "boot"
    /\ LET v == SetupBody(World)
       IN  /\ Commit(v)
           /\ obs' = [obs EXCEPT !.op = "setup", !.prev = machine.current_state,
                                 !.entered = v.entered]
    /\ pc' = "run"

\* one pass of loop(), d milliseconds after the previous one, reading raw
Loop(d, raw) ==
    /\ pc = "run"
    /\ d = 1 \/ Quiet(World, Add(millis, d - 1))
    /\ LET w == [World EXCEPT !.t = Add(millis, d)]
           v == LoopBody(w, raw)
       IN  /\ Commit(v)
           /\ obs' = ObserveTime(ObservePoll(obs, w, v, raw), w, v, d)
    /\ pc' = pc

Next ==
    \/ Setup
    \/ \E d \in Delays(World) : Loop(d, obs.raw)
    \/ /\ obs.toggles < MaxToggles
       /\ \E d \in ToggleDelays(World) : Loop(d, HIGH + LOW - obs.raw)

Spec == Init /\ [][Next]_vars

(* ---- the sketch with a user who taps the button ---- *)

\* the level read last has been committed
Settled == button.last_state = button.switch_state

\* the pin changes only once its last change has been committed, one
\* millisecond after a poll
PressNext ==
    \/ Setup
    \/ \E d \in Delays(World) : millis + d <= MaxPressTime /\ Loop(d, obs.raw)
    \/ /\ Settled
       /\ obs.toggles < 2 * MaxPresses
       /\ millis + 1 <= MaxPressTime
       /\ Loop(1, HIGH + LOW - obs.raw)

PressSpec == Init /\ [][PressNext]_vars

(* ---- the sketch, followed across the wrap of the counter ---- *)

\* The sketch idles in STATE_OFF, the button released and untouched, until
\* lead milliseconds before the counter wraps: every pass of loop() in that
\* time finds nothing to do.
Sleep(lead) ==
    /\ pc = "run"
    /\ obs.op = "setup"
    /\ machine.current_state = STATE_OFF
    /\ Settled
    /\ ~is_pressed(World)
    /\ Quiet(World, ULONG - lead)
    /\ millis' = ULONG - lead
    /\ obs' = [obs EXCEPT !.op = "sleep", !.arg = lead,
                          !.epoch = ULONG - lead,
                          !.now = obs.now + (ULONG - lead - millis)]
    /\ UNCHANGED <<button, machine, objs, led_bar, event, pc>>

WrapNext ==
    \/ Setup
    \/ \E lead \in WrapLeads : Sleep(lead)
    \/ /\ obs.op # "setup"
       /\ \E d \in Delays(World) : Loop(d, obs.raw)
    \/ /\ obs.op # "setup"
       /\ obs.toggles < MaxWrapToggles
       /\ \E d \in ToggleDelays(World) : Loop(d, HIGH + LOW - obs.raw)

WrapSpec == Init /\ [][WrapNext]_vars

(* ---- the sketch with loop() running for ever ---- *)

\* the next pass of loop() that has something to look at, the pin unchanged
LiveTick == \E d \in LiveDelays(World) : Loop(d, obs.raw)

\* the pin is found changed
LiveToggle ==
    /\ ~obs.left
    /\ obs.toggles < MaxLiveToggles
    /\ \E d \in {1} \cup LiveDelays(World) : Loop(d, HIGH + LOW - obs.raw)

\* the user lets go of the button and does not press it again
Leave ==
    /\ pc = "run"
    /\ ~obs.left
    /\ obs.raw = LOW
    /\ obs' = [obs EXCEPT !.left = TRUE]
    /\ UNCHANGED <<millis, button, machine, objs, led_bar, event, pc>>

LiveNext == Setup \/ LiveTick \/ LiveToggle \/ Leave

\* LiveTick can be taken: ENABLED <<LiveTick>>_vars, as a state predicate
TickEnabled ==
    /\ pc = "run"
    /\ \E d \in LiveDelays(World) : d = 1 \/ Quiet(World, Add(millis, d - 1))

\* the step is one of LiveTick: among the steps of LiveNext, the ones in
\* which time passes and the pin level is found unchanged
Ticked == obs'.now # obs.now /\ obs'.toggles = obs.toggles

\* The Arduino core calls loop() again and again: weak fairness of LiveTick,
\* that is WF_vars(LiveTick), written out with the two definitions above
LiveFairness == ([]<>~TickEnabled) \/ ([]<><<Ticked>>_vars)

LiveSpec == Init /\ [][LiveNext]_vars /\ LiveFairness

(* ---- WaitState::sweep_leds, one pass of its loop at a time ---- *)

\* sweep_leds(led, dir) is called with any head position and direction; the
\* observer keeps the arguments, the locals (walk), the index of the access
\* made by the last pass (at) and the number of passes
SweepInit ==
    /\ millis = 0
    /\ button = SwitchControl_new
    /\ machine = Machine_new
    /\ objs = States_new
    /\ led_bar = LedBar_new
    /\ event = EVENT_NONE
    /\ pc = "sweep"
    /\ \E led \in Segments : \E dir \in {-1, 1} :
          obs = [op |-> "sweep_leds", led |-> led, dir |-> dir,
                 walk |-> SweepLocals(led, dir), at |-> led, passes |-> 0]

\* while (level > 0) { ... }
SweepPass ==
    /\ pc = "sweep"
    /\ obs.walk.level > 0
    /\ obs' = [obs EXCEPT !.walk = SweepIter(obs.walk),
                          !.at = obs.walk.led,
                          !.passes = obs.passes + 1]
    /\ UNCHANGED <<millis, button, machine, objs, led_bar, event, pc>>

\* led_bar.setLeds(leds), once the loop has ended
SweepShow ==
    /\ pc = "sweep"
    /\ obs.walk.level = 0
    /\ led_bar' = setLeds(World, obs.walk.leds).bar
    /\ pc' = "shown"
    /\ UNCHANGED <<millis, button, machine, objs, event, obs>>

SweepNext == SweepPass \/ SweepShow

SweepSpec == SweepInit /\ [][SweepNext]_vars

(* ---- the Machine interface, called directly ---- *)

ObserveCall(o, w, v, op, arg) ==
    ObserveTime([o EXCEPT !.op = op, !.arg = arg, !.prev = w.m.current_state,
                          !.entered = v.entered, !.calls = o.calls + 1],
                w, v, 0)

\* fsm.add_state(&state) for the state object with the given id
AddState(id) ==
    /\ obs.calls < MaxCalls
    /\ LET v == Machine_add_state(World, id)
       IN  /\ Commit(v)
           /\ obs' = ObserveCall(obs, World, v, "add_state", id)
    /\ pc' = pc

\* fsm.set_state(id)
SetState(id) ==
    /\ obs.calls < MaxCalls
    /\ LET v == Machine_set_state(World, id)
       IN  /\ Commit(v)
           /\ obs' = ObserveCall(obs, World, v, "set_state", id)
    /\ pc' = pc

\* fsm.update(ev)
MachineUpdate(ev) ==
    /\ LET w == [World EXCEPT !.ev = ev]
           v == Machine_update(w, ev)
       IN  /\ Commit(v)
           /\ obs' = ObserveTime([obs EXCEPT !.op = "update", !.arg = ev,
                                              !.prev = machine.current_state,
                                              !.entered = v.entered],
                                  w, v, 0)
    /\ pc' = pc

\* d milliseconds pass
Advance(d) ==
    /\ obs.calls < MaxCalls
    /\ millis' = Add(millis, d)
    /\ obs' = [obs EXCEPT !.op = "advance", !.arg = d,
                          !.prev = machine.current_state, !.entered = <<>>,
                          !.calls = obs.calls + 1, !.now = obs.now + d]
    /\ UNCHANGED <<button, machine, objs, led_bar, event, pc>>

ApiNext ==
    \/ \E id \in Modes : AddState(id)
    \/ \E id \in StateArgs : SetState(id)
    \/ \E ev \in Events : MachineUpdate(ev)
    \/ \E d \in CallDelays : Advance(d)

ApiSpec == Init /\ [][ApiNext]_vars

(* ---- the machine set up as in the sketch, then driven by update() ---- *)

\* all five states are registered and the machine is started in STATE_OFF;
\* from then on only fsm.update(ev) is called, with any event at any time
DriveNext ==
    \/ Setup
    \/ /\ pc = "run"
       /\ \E ev \in Events : MachineUpdate(ev)
    \/ /\ pc = "run"
       /\ obs.calls < MaxDrives
       /\ \E d \in DriveDelays : Advance(d)

DriveSpec == Init /\ [][DriveNext]_vars

(* ------------------------------------------------------------------ *)
(* Properties                                                          *)
(* ------------------------------------------------------------------ *)

\* the last step was a pass of loop() or a direct fsm.update()
Updated == obs.op \in {"loop", "update"}

\* C1: from each of the five modes, with STATE_OFF registered, one
\* Machine::update(EVENT_LONGPRESS) leaves the machine in STATE_OFF.
C1_LongPressGoesOff ==
    (/\ obs.op = "update"
     /\ obs.arg = EVENT_LONGPRESS
     /\ obs.prev \in Modes
     /\ machine.states[STATE_OFF])
    => machine.current_state = STATE_OFF

\* a long press delivered in STATE_WAIT, some time after it was entered
C1_Witness ==
    /\ obs.op = "update"
    /\ obs.arg = EVENT_LONGPRESS
    /\ obs.prev = STATE_WAIT
    /\ machine.current_state = STATE_OFF
    /\ obs.entered = <<STATE_OFF>>
    /\ millis > objs.state_start_time[STATE_WAIT]

\* set_state(id) is refused in the state before the call
Refused(id) ==
    \/ id = machine.current_state
    \/ id = STATE_NONE
    \/ id >= STATE_MAX
    \/ ~machine.states[id]

\* C2: a refused Machine::set_state(id) (id the current state, STATE_NONE,
\* out of range or unregistered) changes nothing and runs no enter() hook;
\* any other set_state(id) makes id current and runs exactly its enter() once.
C2_SetStateFrame ==
    [][(obs'.op = "set_state" /\ obs'.calls = obs.calls + 1)
        => IF Refused(obs'.arg)
           THEN /\ UNCHANGED <<millis, button, machine, objs, led_bar>>
                /\ obs'.entered = <<>>
           ELSE /\ machine'.current_state = obs'.arg
                /\ machine'.states = machine.states
                /\ obs'.entered = <<obs'.arg>>
                /\ objs'.state_start_time =
                      [objs.state_start_time EXCEPT ![obs'.arg] = millis]]_vars

\* a set_state to an unregistered id, made after the machine has spent time
\* in STATE_OFF
C2_Witness ==
    /\ obs.op = "set_state"
    /\ obs.arg = STATE_TIMER
    /\ ~machine.states[STATE_TIMER]
    /\ machine.current_state = STATE_OFF
    /\ millis > objs.state_start_time[STATE_OFF]

\* C3: EVENT_PRESSED or EVENT_RELEASED is returned, and the committed level
\* changed to the level read, only on a poll at which the raw level has been
\* read unchanged for more than debounce_time.
C3_DebouncedCommit ==
    event \in {EVENT_PRESSED, EVENT_RELEASED}
    => /\ Sub(millis, obs.raw_since) > debounce_time
       /\ button.switch_state = obs.raw
       /\ (event = EVENT_PRESSED) = (obs.raw = HIGH)

\* a press committed after the pin went high, back low and high again
C3_Witness ==
    /\ event = EVENT_PRESSED
    /\ obs.toggles = 3
    /\ button.last_release = 0

\* C4: between an EVENT_PRESSED and the next EVENT_RELEASED at most one
\* EVENT_LONGPRESS is returned.
C4_OneLongPressPerPress == obs.longpresses <= 1

\* the button still held, polled twice the longpress time after the press
C4_Witness ==
    /\ obs.longpresses = 1
    /\ button.switch_state = HIGH
    /\ obs.raw = HIGH
    /\ Sub(millis, button.last_press) >= 2 * longpress_time

\* C5: a press whose pin level was read HIGH without interruption for more
\* than longpress_time has had its EVENT_LONGPRESS by the time its
\* EVENT_RELEASED is returned.
C5_LongPressEmitted ==
    (event = EVENT_RELEASED /\ obs.hold > longpress_time)
    => obs.longpresses = 1

\* C6: ProgramState hands the machine to STATE_TIMER only on a poll at which
\* the button is released (not held down) and has been for more than timeout.
C6_TimerOnlyWhileReleased ==
    (obs.op = "loop" /\ obs.prev = STATE_PROGRAM
       /\ machine.current_state = STATE_TIMER)
    => /\ ~is_pressed(World)
       /\ time_since_released(World) > timeout

\* the button has been released, with no press committed since, for more
\* than timeout
ReleasedForTimeout ==
    /\ ~is_pressed(World)
    /\ time_since_released(World) > timeout

\* C7: in STATE_PROGRAM, on a poll whose event is not EVENT_LONGPRESS and at
\* which the button has been released for more than timeout, the machine
\* moves to STATE_TIMER and total_time is program_time * bar_time * 1000,
\* with program_time in 1..10.
C7_BudgetAtTimeout ==
    (obs.op = "loop" /\ obs.prev = STATE_PROGRAM
       /\ event # EVENT_LONGPRESS /\ ReleasedForTimeout)
    => /\ machine.current_state = STATE_TIMER
       /\ objs.program_time \in 1..bar_count
       /\ objs.total_time = objs.program_time * bar_time * 1000

\* the timer started with two bars selected
C7_Witness ==
    /\ obs.op = "loop"
    /\ obs.prev = STATE_PROGRAM
    /\ machine.current_state = STATE_TIMER
    /\ ReleasedForTimeout
    /\ objs.program_time = 2
    /\ objs.total_time = 2 * bar_time * 1000

\* C8: in STATE_TIMER, an update with an event other than EVENT_LONGPRESS
\* moves the machine to STATE_WAIT when state_time() > total_time and leaves
\* it in STATE_TIMER otherwise.
C8_TimerExpiry ==
    (obs.op = "loop" /\ obs.prev = STATE_TIMER /\ event # EVENT_LONGPRESS)
    => IF state_time(World, STATE_TIMER) > objs.total_time
       THEN machine.current_state = STATE_WAIT
       ELSE machine.current_state = STATE_TIMER

\* the first poll past the budget
C8_Witness ==
    /\ obs.op = "loop"
    /\ obs.prev = STATE_TIMER
    /\ machine.current_state = STATE_WAIT
    /\ objs.total_time = bar_time * 1000
    /\ state_time(World, STATE_TIMER) = objs.total_time + 1

\* C9: in STATE_PROGRAM program_time is in 1..10; it is 1 on entry, an
\* EVENT_PRESSED makes it the next count, wrapping from 10 to 1, and shows
\* that count on the bar, and no other event changes it.
C9_ProgramCount ==
    [][/\ machine'.current_state = STATE_PROGRAM
          => objs'.program_time \in 1..bar_count
       /\ (obs'.op = "loop" /\ obs'.entered = <<STATE_PROGRAM>>)
          => objs'.program_time = 1
       /\ (obs'.op = "loop" /\ machine.current_state = STATE_PROGRAM)
          => IF event' = EVENT_PRESSED
             THEN /\ objs'.program_time =
                        (IF objs.program_time = bar_count
                         THEN 1 ELSE objs.program_time + 1)
                  /\ led_bar'.level = objs'.program_time
                  /\ machine'.current_state = STATE_PROGRAM
             ELSE objs'.program_time = objs.program_time]_vars

\* the tenth press in STATE_PROGRAM: the count goes from 10 back to 1
C9_Witness ==
    /\ obs.op = "loop"
    /\ obs.prev = STATE_PROGRAM
    /\ event = EVENT_PRESSED
    /\ obs.toggles = 2 * MaxPresses - 1
    /\ objs.program_time = 1
    /\ led_bar.level = 1

\* C10: in STATE_STARTUP, an update with an event other than EVENT_LONGPRESS
\* moves the machine to STATE_PROGRAM when state_time() >= 1500 and leaves
\* it in STATE_STARTUP otherwise, whatever the event.
C10_StartupLength ==
    (obs.op = "loop" /\ obs.prev = STATE_STARTUP /\ event # EVENT_LONGPRESS)
    => IF state_time(World, STATE_STARTUP) >= startup_time
       THEN machine.current_state = STATE_PROGRAM
       ELSE machine.current_state = STATE_STARTUP

\* the poll exactly 1500 ms after entry, the button having been released
\* during the self-test
C10_Witness ==
    /\ obs.op = "loop"
    /\ obs.prev = STATE_STARTUP
    /\ machine.current_state = STATE_PROGRAM
    /\ state_time(World, STATE_STARTUP) = startup_time
    /\ button.last_release > objs.state_start_time[STATE_STARTUP]

\* the machine was in STATE_STARTUP before the last pass of loop() and still is
StartupFilled ==
    /\ obs.op = "loop"
    /\ obs.prev = STATE_STARTUP
    /\ machine.current_state = STATE_STARTUP

\* C11 as claimed: in STATE_STARTUP every value handed to setLevel is within
\* the capacity of the bar, 0..10.
C11_LevelWithinBar ==
    StartupFilled => led_bar.level \in 0..bar_count

\* the largest value StartupState hands to setLevel: (1499 + 10) / 100 = 15
StartupLevelMax == (startup_time - 1 + 10) \div 100

\* C11 amended: in STATE_STARTUP the value handed to setLevel is
\* (state_time() + 10) / 100 itself, not clamped: the whole number of
\* hundreds in state_time() + 10, which is within 0..15.
C11_LevelUnclamped ==
    StartupFilled
    => /\ led_bar.level \in 0..StartupLevelMax
       /\ led_bar.level * 100 <= state_time(World, STATE_STARTUP) + 10
       /\ state_time(World, STATE_STARTUP) + 10 < (led_bar.level + 1) * 100

\* the last poll of the self-test, 1499 ms after entry: 15 is handed over
C11_Witness ==
    /\ StartupFilled
    /\ state_time(World, STATE_STARTUP) = startup_time - 1
    /\ led_bar.level = StartupLevelMax

\* C12: an EVENT_PRESSED delivered in STATE_OFF or STATE_WAIT moves the
\* machine to STATE_STARTUP on that update, whatever the time spent in the
\* state, the sweep position and the sweep timer; only StartupState's enter()
\* runs and state_time() is 0 right after.
C12_PressStartsStartup ==
    (obs.op = "loop" /\ event = EVENT_PRESSED
       /\ obs.prev \in {STATE_OFF, STATE_WAIT})
    => /\ machine.current_state = STATE_STARTUP
       /\ obs.entered = <<STATE_STARTUP>>
       /\ state_time(World, STATE_STARTUP) = 0
       /\ button.led

\* a press in STATE_WAIT with the sweep head in mid-bar and the sweep timer
\* not yet due
C12_Witness ==
    /\ obs.op = "loop"
    /\ event = EVENT_PRESSED
    /\ obs.prev = STATE_WAIT
    /\ machine.current_state = STATE_STARTUP
    /\ objs.sweep_led = 5
    /\ Sub(millis, objs.wait_last_update) \in 1..sweep_interval

\* C13: in STATE_WAIT the sweep head is within 0..9 and the direction is +1
\* or -1; a step of the head to index 9 makes the direction -1, a step to
\* index 0 makes it +1, and the direction changes in no other step.
C13_SweepBounces ==
    [][machine'.current_state = STATE_WAIT
       => /\ objs'.sweep_led \in 0..sweep_last
          /\ objs'.sweep_dir \in {-1, 1}
          /\ machine.current_state = STATE_WAIT
             => IF objs'.sweep_led # objs.sweep_led
                THEN /\ objs'.sweep_led = objs.sweep_led + objs.sweep_dir
                     /\ objs'.sweep_dir =
                           (CASE objs'.sweep_led = sweep_last -> -1
                              [] objs'.sweep_led = 0 -> 1
                              [] OTHER -> objs.sweep_dir)
                ELSE objs'.sweep_dir = objs.sweep_dir]_vars

\* the head has gone up to index 9, come back to index 0 and set off again
C13_Witness ==
    /\ machine.current_state = STATE_WAIT
    /\ objs.sweep_led = 1
    /\ objs.sweep_dir = 1
    /\ Sub(millis, objs.state_start_time[STATE_WAIT]) > 19 * sweep_interval

\* C14: after every poll at which the committed level is pressed and more
\* than longpress_time has passed since last_press, the longpress latch is
\* set (the poll on which that first held returned EVENT_LONGPRESS), whether
\* or not the debounce time has expired.
C14_LongPressOnDueTick ==
    (obs.op = "loop" /\ is_pressed(World)
       /\ time_since_pressed(World) > longpress_time)
    => button.in_longpress

\* C15: a poll that commits a level returns EVENT_PRESSED (level now HIGH) or
\* EVENT_RELEASED (level now LOW), never EVENT_LONGPRESS; a poll that commits
\* none returns EVENT_LONGPRESS, when it sets the longpress latch, or
\* EVENT_NONE.
C15_EventPriority ==
    [][obs'.op = "loop"
       => IF button'.switch_state # button.switch_state
          THEN event' = (IF button'.switch_state = HIGH
                         THEN EVENT_PRESSED ELSE EVENT_RELEASED)
          ELSE /\ event' \in {EVENT_LONGPRESS, EVENT_NONE}
               /\ (event' = EVENT_LONGPRESS)
                     = (button'.in_longpress /\ ~button.in_longpress)]_vars

\* a press committed more than longpress_time after the previous one: the
\* poll returns EVENT_PRESSED, not EVENT_LONGPRESS
C15_Witness ==
    /\ obs.op = "loop"
    /\ event = EVENT_PRESSED
    /\ obs.toggles = 3
    /\ button.last_release > 0
    /\ millis > longpress_time + debounce_time + 2

\* C16: current_state is STATE_NONE or an id with a registered
\* implementation, and once it is not STATE_NONE no call of add_state,
\* set_state or update makes it STATE_NONE again.
C16_NoneOnlyAtStart ==
    [][/\ machine'.current_state # STATE_NONE
          => /\ machine'.current_state \in Modes
             /\ machine'.states[machine'.current_state]
       /\ machine.current_state # STATE_NONE
          => machine'.current_state # STATE_NONE]_vars

\* with STATE_OFF current, set_state(STATE_NONE) and an update whose state
\* asks for an unregistered id have both left the machine where it was
C16_Witness ==
    /\ machine.current_state = STATE_OFF
    /\ obs.prev = STATE_OFF
    /\ \/ obs.op = "set_state" /\ obs.arg = STATE_NONE
       \/ obs.op = "update" /\ obs.arg = EVENT_PRESSED
            /\ ~machine.states[STATE_STARTUP]

\* C17: Machine::update(event) with current_state STATE_NONE does nothing,
\* for every event: current_state stays STATE_NONE, no enter() runs and no
\* member of a state, of the button or of the bar changes.
C17_UpdateInNoneIsNoOp ==
    [][(obs'.op = "update" /\ machine.current_state = STATE_NONE)
       => /\ UNCHANGED <<millis, button, machine, objs, led_bar>>
          /\ obs'.entered = <<>>]_vars

\* update(EVENT_PRESSED) on a machine on which no state is registered
C17_Witness ==
    /\ obs.op = "update"
    /\ obs.arg = EVENT_PRESSED
    /\ obs.prev = STATE_NONE
    /\ machine.current_state = STATE_NONE
    /\ \A id \in Modes : ~machine.states[id]

\* C18: the longpress latch is set only while the committed level is pressed,
\* and it is clear after every poll that returns EVENT_PRESSED.
C18_LatchOnlyWhilePressed ==
    /\ button.in_longpress => button.switch_state = HIGH
    /\ event = EVENT_PRESSED => ~button.in_longpress

\* a press committed in STATE_OFF after an earlier release: the machine had
\* been sent back to STATE_OFF by the long press of the press before
C18_Witness ==
    /\ obs.op = "loop"
    /\ event = EVENT_PRESSED
    /\ obs.prev = STATE_OFF
    /\ button.last_release > longpress_time
    /\ ~button.in_longpress

\* C19: total_time changes only in a pass of loop() that takes the machine
\* from STATE_PROGRAM to STATE_TIMER; no other update and no enter() changes
\* it, so it keeps its value throughout a stay in STATE_TIMER.
C19_BudgetWrittenOnce ==
    [][objs'.total_time # objs.total_time
       => /\ obs'.op = "loop"
          /\ machine.current_state = STATE_PROGRAM
          /\ machine'.current_state = STATE_TIMER
          /\ obs'.entered = <<STATE_TIMER>>]_vars

\* the end of a stay in STATE_TIMER during which the button was pressed and
\* released: the budget is still the one written at the transition
C19_Witness ==
    /\ obs.op = "loop"
    /\ obs.prev = STATE_TIMER
    /\ machine.current_state = STATE_WAIT
    /\ objs.total_time = objs.program_time * bar_time * 1000
    /\ button.last_press > objs.state_start_time[STATE_TIMER]
    /\ button.last_release > button.last_press

\* the counter has wrapped since the timestamp taken at time at (since
\* reset, not wrapped), less than one counter range ago
WrappedSince(at) ==
    /\ at >= 0
    /\ at < ULONG
    /\ obs.now >= ULONG
    /\ obs.now - at < ULONG

\* the elapsed time the program computes from a timestamp is the time that
\* has really passed since it was taken at time at, when that is less than
\* one counter range
TrueElapsed(computed, at) ==
    (at >= 0 /\ obs.now - at < ULONG) => computed = obs.now - at

\* C20: state_time(), the debounce and longpress elapsed times,
\* time_since_pressed(), time_since_released() and the Timer and Wait render
\* intervals equal the time really passed since their timestamp was taken,
\* also when the counter has wrapped in between; so EVENT_LONGPRESS comes
\* only after more than longpress_time and a committed level only after more
\* than debounce_time, and Startup and Timer end exactly when their real time
\* is up.
C20_WrapSafeElapsed ==
    /\ machine.current_state \in Modes
       => TrueElapsed(state_time(World, machine.current_state),
                      obs.stamp.start[machine.current_state])
    /\ TrueElapsed(Sub(millis, button.last_debounce), obs.stamp.debounce)
    /\ TrueElapsed(time_since_pressed(World), obs.stamp.press)
    /\ TrueElapsed(time_since_released(World), obs.stamp.release)
    /\ machine.current_state = STATE_TIMER
       => TrueElapsed(Sub(millis, objs.timer_last_update), obs.stamp.timer)
    /\ machine.current_state = STATE_WAIT
       => TrueElapsed(Sub(millis, objs.wait_last_update), obs.stamp.wait)
    /\ (obs.op = "loop" /\ event = EVENT_LONGPRESS)
       => obs.now - obs.stamp.press > longpress_time
    /\ (obs.op = "loop" /\ event \in {EVENT_PRESSED, EVENT_RELEASED})
       => obs.now - obs.raw_stamp > debounce_time
    /\ (obs.op = "loop" /\ obs.prev = STATE_STARTUP /\ event # EVENT_LONGPRESS)
       => (machine.current_state = STATE_PROGRAM)
            = (obs.now - obs.stamp.start[STATE_STARTUP] >= startup_time)
    /\ (obs.op = "loop" /\ obs.prev = STATE_TIMER /\ event # EVENT_LONGPRESS)
       => (machine.current_state = STATE_WAIT)
            = (obs.now - obs.stamp.start[STATE_TIMER] > objs.total_time)

\* a long press returned after the wrap for a press committed before it
C20_Witness ==
    /\ obs.op = "loop"
    /\ event = EVENT_LONGPRESS
    /\ WrappedSince(obs.stamp.press)
    /\ millis < button.last_press

\* the number of divisions by 3 that take a level to 0
RECURSIVE PassesFrom(_)
PassesFrom(level) ==
    IF level > 0 THEN 1 + PassesFrom(level \div sweep_divisor) ELSE 0

\* from 255: 85, 28, 9, 3, 1, 0, six passes
SweepPasses == PassesFrom(LEVEL_FULL)

\* C21: for every head position 0..9 and direction -1 or +1, each pass of the
\* loop of sweep_leds reads and writes only the segment under an index within
\* 0..9, changes no segment that is already set, and lowers the level, so the
\* loop ends (after six passes); the frame then handed to setLeds has 255 at
\* the head and less on every other segment.
C21_SweepFrame ==
    [][/\ obs'.passes # obs.passes
          => /\ obs'.at \in Segments
             /\ obs'.walk.led \in Segments
             /\ obs'.walk.level < obs.walk.level
             /\ obs'.passes <= SweepPasses
             /\ \A i \in Segments :
                   obs'.walk.leds[i] # obs.walk.leds[i]
                   => (i = obs'.at /\ obs.walk.leds[i] = 0)
       /\ pc' = "shown"
          => /\ obs.passes = SweepPasses
             /\ led_bar'.leds[obs.led] = LEVEL_FULL
             /\ \A i \in Segments \ {obs.led} :
                   led_bar'.leds[i] < LEVEL_FULL]_vars

\* the frame for the head on segment 1 going up: the trail has bounced off
\* the low end and come back over the head, which is still at 255
C21_Witness ==
    /\ pc = "shown"
    /\ obs.led = 1
    /\ obs.dir = 1
    /\ led_bar.leds[1] = LEVEL_FULL
    /\ led_bar.leds[0] = LEVEL_FULL \div sweep_divisor
    /\ led_bar.leds[2] > 0

\* the changes of state that do not need a long press
Edges ==
    {<<STATE_OFF, STATE_STARTUP>>, <<STATE_STARTUP, STATE_PROGRAM>>,
     <<STATE_PROGRAM, STATE_TIMER>>, <<STATE_TIMER, STATE_WAIT>>,
     <<STATE_WAIT, STATE_STARTUP>>}

\* C22: a Machine::update that changes current_state takes it along Off ->
\* Startup, Startup -> Program, Program -> Timer, Timer -> Wait or Wait ->
\* Startup, or, on EVENT_LONGPRESS, from any state to Off; it runs the enter()
\* of the new state and no other.
C22_OnlyTheseEdges ==
    [][(obs'.op \in {"update", "loop"}
          /\ machine'.current_state # machine.current_state)
       => /\ \/ <<machine.current_state, machine'.current_state>> \in Edges
             \/ /\ machine'.current_state = STATE_OFF
                /\ event' = EVENT_LONGPRESS
          /\ obs'.entered = <<machine'.current_state>>]_vars

\* an update(EVENT_PRESSED) that took the machine from Timer to Wait: the
\* press itself leads nowhere in Timer
C22_Witness ==
    /\ obs.op = "update"
    /\ obs.arg = EVENT_PRESSED
    /\ obs.prev = STATE_TIMER
    /\ machine.current_state = STATE_WAIT
    /\ obs.entered = <<STATE_WAIT>>

\* C23: an EVENT_PRESSED is returned only when the last of the two level
\* events was an EVENT_RELEASED or there was none yet, an EVENT_RELEASED and
\* an EVENT_LONGPRESS only when it was an EVENT_PRESSED; and is_pressed() is
\* true exactly when the last level event was an EVENT_PRESSED.
C23_EventsAlternate ==
    [][obs'.op = "loop"
       => /\ event' = EVENT_PRESSED
             => obs.edge \in {EVENT_NONE, EVENT_RELEASED}
          /\ event' \in {EVENT_RELEASED, EVENT_LONGPRESS}
             => obs.edge = EVENT_PRESSED
          /\ is_pressed([World EXCEPT !.b = button'])
                = (obs'.edge = EVENT_PRESSED)]_vars

\* the release of the second press, which was a long one
C23_Witness ==
    /\ obs.op = "loop"
    /\ event = EVENT_RELEASED
    /\ obs.toggles = 4
    /\ obs.longpresses = 1
    /\ ~is_pressed(World)

\* C24: once all five states are registered and the machine has been started
\* in STATE_OFF, after any sequence of updates the indicator LED is off when
\* the machine is in STATE_OFF and on when it is in any other state.
C24_LedShowsPower ==
    pc = "run"
    => /\ machine.current_state \in Modes
       /\ button.led = (machine.current_state # STATE_OFF)

\* a long press in STATE_WAIT, after a whole countdown: the LED, on since
\* Startup, goes off
C24_Witness ==
    /\ pc = "run"
    /\ obs.op = "update"
    /\ obs.arg = EVENT_LONGPRESS
    /\ obs.prev = STATE_WAIT
    /\ machine.current_state = STATE_OFF
    /\ ~button.led
    /\ objs.state_start_time[STATE_WAIT] > bar_time * 1000

\* C25: with loop() running for ever and the button let go for good, the
\* machine does not stay in STATE_STARTUP, from STATE_PROGRAM it reaches
\* STATE_TIMER, and from STATE_TIMER it reaches STATE_WAIT and stays there.
C25_CountdownCompletes ==
    /\ (machine.current_state = STATE_STARTUP)
          ~> (machine.current_state # STATE_STARTUP)
    /\ (obs.left /\ machine.current_state = STATE_PROGRAM)
          ~> (machine.current_state = STATE_TIMER)
    /\ (obs.left /\ machine.current_state = STATE_TIMER)
          ~> [](machine.current_state = STATE_WAIT)

\* the sweep still running 2.4 s into STATE_WAIT, after a countdown of one
\* bar that the user started and then left alone
C25_Witness ==
    /\ obs.left
    /\ machine.current_state = STATE_WAIT
    /\ objs.total_time = bar_time * 1000
    /\ state_time(World, STATE_WAIT) > MaxLiveWait - sweep_interval - 2
    /\ objs.state_start_time[STATE_WAIT]
          = objs.state_start_time[STATE_TIMER] + objs.total_time + 1

TypeOK ==
    /\ millis \in 0..(ULONG - 1)
    /\ machine.current_state \in 0..(STATE_MAX - 1)
    /\ event \in Events

====
